---- MODULE Spec2Model ----
(***************************************************************************)
(* The ledger engine of backend/main.go: the block chain, the pending      *)
(* transaction pool, the mutex guarding both, and the HTTP handlers that   *)
(* submit transactions and mine blocks, run by concurrent request          *)
(* goroutines.                                                             *)
(*                                                                         *)
(* Strings are sequences of byte codes (32 = ' ', 48 = '0', 97 = 'a').     *)
(* SHA-256 is replaced by a small deterministic digest printed as HashLen  *)
(* hexadecimal characters; everything built on it (Merkle root, block      *)
(* hash, proof-of-work search) is computed as the code computes it.        *)
(***************************************************************************)
EXTENDS Integers, Sequences, FiniteSets, Bags, TLC

\* ------------------------------------------------------------------ bounds
\* Requests started over a whole run.
MaxRequests == 3
\* The nonce search is followed up to this nonce; a search that needs more
\* is still running (it holds the mutex and has not returned).
MaxNonce == 40
\* time.Now().Unix() returns a value in 0..MaxTime.
MaxTime == 1

\* The request goroutines.
Procs == {1, 2}
\* No goroutine holds the mutex.
Free == 0

\* Longest transaction list given to computeMerkleRoot in a direct call.
MaxTxs == 4
\* The transactions of those lists: "a", "b", "c".
MerkleAlphabet == {<<97>>, <<98>>, <<99>>}

\* Bodies of POST /tx: "", " ", "a", " a".
TxData == {<< >>, <<32>>, <<97>>, <<32, 97>>}
\* Difficulty values of POST /mine: negative, zero, the default, and one
\* longer than a digest, which no hash can satisfy.
Difficulties == {-1, 0, 4, 7}
\* timeout_ms values of POST /mine.
Timeouts == {0, 1}
Methods == {"POST", "OPTIONS"}

\* ----------------------------------------------------------------- strings
\* strconv.Itoa / strconv.FormatInt(_, 10): base-10 ASCII, '-' for negatives.
RECURSIVE Digits(_)
Digits(n) ==
    IF n < 10 THEN <<48 + n>> ELSE Digits(n \div 10) \o <<48 + (n % 10)>>

Itoa(n) == IF n < 0 THEN <<45>> \o Digits(-n) ELSE Digits(n)

\* unicode.IsSpace on the ASCII range.
IsSpace(c) == c \in {9, 10, 11, 12, 13, 32}

\* strings.TrimSpace: drop leading and trailing white space.
RECURSIVE TrimLeft(_)
TrimLeft(s) ==
    IF s # << >> /\ IsSpace(Head(s)) THEN TrimLeft(Tail(s)) ELSE s

RECURSIVE TrimRight(_)
TrimRight(s) ==
    IF s # << >> /\ IsSpace(s[Len(s)])
    THEN TrimRight(SubSeq(s, 1, Len(s) - 1))
    ELSE s

\* No trimming at all.
TrimSpaceNone(s) == s

TrimSpace(s) == TrimRight(TrimLeft(s))

\* strings.Repeat("0", count) for count >= 0 (it panics on a negative count).
Repeat0(count) == [i \in 1..count |-> 48]

\* strings.HasPrefix.
HasPrefix(s, prefix) ==
    /\ Len(prefix) <= Len(s)
    /\ SubSeq(s, 1, Len(prefix)) = prefix

\* ------------------------------------------------------------------ hasher
\* Width of a digest in hexadecimal characters, and the range of digests.
HashLen == 6
DigestMod == 4093

RECURSIVE DigestFrom(_, _)
DigestFrom(h, s) ==
    IF s = << >> THEN h
    ELSE DigestFrom((h * 131 + Head(s) + 1) % DigestMod, Tail(s))

RECURSIVE Pow16(_)
Pow16(k) == IF k = 0 THEN 1 ELSE 16 * Pow16(k - 1)

HexDigit(v) == IF v < 10 THEN 48 + v ELSE 87 + v

\* hex.EncodeToString: fixed width, lower case.
EncodeToString(d) ==
    [i \in 1..HashLen |-> HexDigit((d \div Pow16(HashLen - i)) % 16)]

sha256hex(s) == EncodeToString(DigestFrom(7, s))

\* ------------------------------------------------------------- Merkle tree
\* The reduction that leaves a trailing odd element out.
NextLayerDropOdd(layer) ==
    [k \in 1..(Len(layer) \div 2) |->
        sha256hex(layer[2 * k - 1] \o layer[2 * k])]

\* The reduction that combines every left element with itself.
NextLayerLeftOnly(layer) ==
    [k \in 1..((Len(layer) + 1) \div 2) |->
        sha256hex(layer[2 * k - 1] \o layer[2 * k - 1])]

\* Lines 56-69, one pass of the outer loop: adjacent elements are combined
\* left to right, a trailing odd element with itself.
NextLayer(layer) ==
    [k \in 1..((Len(layer) + 1) \div 2) |->
        IF 2 * k > Len(layer)
        THEN sha256hex(layer[2 * k - 1] \o layer[2 * k - 1])
        ELSE sha256hex(layer[2 * k - 1] \o layer[2 * k])]

RECURSIVE ReduceLayers(_)
ReduceLayers(layer) ==
    IF Len(layer) > 1 THEN ReduceLayers(NextLayer(layer)) ELSE layer[1]

computeMerkleRoot(txs) ==
    IF Len(txs) = 0 THEN sha256hex(<< >>)
    ELSE ReduceLayers([i \in 1..Len(txs) |-> sha256hex(txs[i])])

\* ------------------------------------------------------------------ blocks
computeHash(b) ==
    sha256hex(Itoa(b.Index) \o Itoa(b.Timestamp) \o b.PrevHash
              \o b.MerkleRoot \o Itoa(b.Nonce) \o Itoa(b.Difficulty))

\* The zero value Block{}.
ZeroBlock ==
    [Index |-> 0, Timestamp |-> 0, Transactions |-> << >>, MerkleRoot |-> << >>,
     PrevHash |-> << >>, Hash |-> << >>, Nonce |-> 0, Difficulty |-> 0]

\* The nonce loop leaving at its first candidate, whatever its hash.
SearchNonceFirst(b, prefix, nonce) == nonce

\* The nonce loop of mineBlock from `nonce` on: the first nonce whose hash has
\* the prefix, or MaxNonce + 1 when none up to MaxNonce has.
RECURSIVE SearchNonce(_, _, _)
SearchNonce(b, prefix, nonce) ==
    IF nonce > MaxNonce THEN nonce
    ELSE IF HasPrefix(computeHash([b EXCEPT !.Nonce = nonce]), prefix) THEN nonce
    ELSE SearchNonce(b, prefix, nonce + 1)

\* mineBlock(b, stopAfterMs): the set of its possible outcomes.
\*   "panic"   strings.Repeat panics on a negative difficulty;
\*   "ok"      the block with Nonce and Hash set;
\*   "timeout" only when stopAfterMs > 0: after any failed attempt the clock
\*             may have passed the limit; lastNonce is the value the error
\*             message reports;
\*   "running" the search has not ended within MaxNonce;
\*   "forever" stopAfterMs = 0 and the prefix is longer than a hash: no
\*             candidate has it and the loop has no other exit.
mineBlock(b, stopAfterMs) ==
    IF b.Difficulty < 0 THEN {[kind |-> "panic", block |-> b, lastNonce |-> 0]}
    ELSE
      LET prefix == Repeat0(b.Difficulty)
          n == SearchNonce(b, prefix, 0)
          mined == [b EXCEPT !.Nonce = n,
                             !.Hash = computeHash([b EXCEPT !.Nonce = n])]
          timeouts ==
              IF stopAfterMs > 0
              THEN {[kind |-> "timeout", block |-> [b EXCEPT !.Nonce = k],
                     lastNonce |-> k + 1] : k \in 0..(n - 1)}
              ELSE {}
      IN  timeouts \cup
          (IF n <= MaxNonce
           THEN {[kind |-> "ok", block |-> mined, lastNonce |-> n]}
           ELSE {[kind |-> IF stopAfterMs = 0 /\ b.Difficulty > HashLen
                           THEN "forever" ELSE "running",
                  block |-> b, lastNonce |-> n]})

defaultDifficulty == 4

\* "Genesis Block"
GenesisTx == <<71, 101, 110, 101, 115, 105, 115, 32, 66, 108, 111, 99, 107>>

\* createGenesisBlock at time ts: the set of blocks it may return.
createGenesisBlock(ts) ==
    LET gen == [ZeroBlock EXCEPT !.Index = 0, !.Timestamp = ts,
                                 !.Transactions = <<GenesisTx>>,
                                 !.PrevHash = << >>,
                                 !.Difficulty = defaultDifficulty,
                                 !.MerkleRoot = computeMerkleRoot(<<GenesisTx>>)]
    IN  {IF out.kind = "ok" THEN out.block
         ELSE [gen EXCEPT !.Nonce = 0, !.Hash = computeHash([gen EXCEPT !.Nonce = 0])]
           : out \in {o \in mineBlock(gen, 0) : o.kind \in {"ok", "timeout"}}}

getLastBlock(chain) == chain[Len(chain)]

\* ------------------------------------------------------------------- state
VARIABLES
    blockchain,           \* the committed blocks, oldest first
    pendingTransactions,  \* the pending pool, insertion order
    mutex,                \* the goroutine holding the mutex, or Free
    pc,                   \* where each request goroutine stands
    body,                 \* the decoded request body of each goroutine
    txs,                  \* handleMine's local snapshot of the pool
    ret,                  \* what addBlock returned to handleMine
    resp,                 \* the response written by the last request
    accepted,             \* history: the transactions appended by handleAddTx
    started,              \* history: the requests started since the first state
    call                  \* a direct call of one function: arguments, locals, result

vars == <<blockchain, pendingTransactions, mutex, pc, body, txs, ret, resp,
          accepted, started, call>>

\* The variables of the server.
server == <<blockchain, pendingTransactions, mutex, pc, body, txs, ret, resp,
            accepted, started>>

NoBody == [DecodeErr |-> FALSE, Data |-> << >>, Difficulty |-> 0, TimeoutMs |-> 0]
NoRet == [block |-> ZeroBlock, err |-> FALSE]
\* status 0: nothing written (no request yet, or the connection was dropped).
NoResp == [status |-> 0, error |-> "", pending |-> << >>, block |-> ZeroBlock]

\* No function is called directly.
NoCall == [fn |-> "none"]

\* main: the chain starts as the mined genesis block, the pool empty.
ServerInit ==
    /\ \E ts \in 0..MaxTime :
          \E gen \in createGenesisBlock(ts) : blockchain = <<gen>>
    /\ pendingTransactions = << >>
    /\ mutex = Free
    /\ pc = [p \in Procs |-> "idle"]
    /\ body = [p \in Procs |-> NoBody]
    /\ txs = [p \in Procs |-> << >>]
    /\ ret = [p \in Procs |-> NoRet]
    /\ resp = [p \in Procs |-> NoResp]
    /\ accepted = << >>
    /\ started = 0

Init == ServerInit /\ call = NoCall

\* A goroutine takes a new request. The locals of a handler (body, txs, ret)
\* exist from here to its return, where they are reset.
Begin(p) ==
    /\ pc[p] = "idle"
    /\ started < MaxRequests
    /\ started' = started + 1
    /\ UNCHANGED <<txs, ret, call>>

\* ------------------------------------------------------------- handleAddTx
\* Lines 160-168: OPTIONS returns at once; otherwise the body is decoded,
\* which fails on malformed JSON.
AddTxBegin(p) ==
    /\ Begin(p)
    /\ \E method \in Methods :
          IF method = "OPTIONS"
          THEN /\ resp' = [resp EXCEPT ![p] = [NoResp EXCEPT !.status = 200]]
               /\ UNCHANGED <<pc, body>>
          ELSE /\ resp' = [resp EXCEPT ![p] = NoResp]
               /\ \E b \in {[NoBody EXCEPT !.DecodeErr = TRUE]}
                           \cup {[NoBody EXCEPT !.Data = d] : d \in TxData} :
                     body' = [body EXCEPT ![p] = b]
               /\ pc' = [pc EXCEPT ![p] = "tx_decode"]
    /\ UNCHANGED <<blockchain, pendingTransactions, mutex, accepted>>

\* Lines 169-172: a body that did not decode or whose data is blank is
\* answered 400.
AddTxDecode(p) ==
    /\ pc[p] = "tx_decode"
    /\ IF body[p].DecodeErr \/ TrimSpace(body[p].Data) = << >>
       THEN /\ resp' = [resp EXCEPT ![p] =
                           [NoResp EXCEPT !.status = 400, !.error = "InvalidInput"]]
            /\ body' = [body EXCEPT ![p] = NoBody]
            /\ pc' = [pc EXCEPT ![p] = "idle"]
       ELSE /\ pc' = [pc EXCEPT ![p] = "tx_lock"]
            /\ UNCHANGED <<resp, body>>
    /\ UNCHANGED <<blockchain, pendingTransactions, mutex, txs, ret,
                   accepted, started, call>>

\* Line 173.
AddTxLock(p) ==
    /\ pc[p] = "tx_lock"
    /\ mutex = Free
    /\ mutex' = p
    /\ pc' = [pc EXCEPT ![p] = "tx_append"]
    /\ UNCHANGED <<blockchain, pendingTransactions, body, txs, ret, resp,
                   accepted, started, call>>

\* Line 174.
AddTxAppend(p) ==
    /\ pc[p] = "tx_append"
    /\ pendingTransactions' = Append(pendingTransactions, body[p].Data)
    /\ accepted' = Append(accepted, body[p].Data)
    /\ pc' = [pc EXCEPT ![p] = "tx_unlock"]
    /\ UNCHANGED <<blockchain, mutex, body, txs, ret, resp, started, call>>

\* Line 175.
AddTxUnlock(p) ==
    /\ pc[p] = "tx_unlock"
    /\ mutex' = Free
    /\ pc' = [pc EXCEPT ![p] = "tx_encode"]
    /\ UNCHANGED <<blockchain, pendingTransactions, body, txs, ret, resp,
                   accepted, started, call>>

\* Lines 176-180: the response is built from the global pool, read here
\* without the mutex: it is the pool as it stands when this step runs.
AddTxEncode(p) ==
    /\ pc[p] = "tx_encode"
    /\ resp' = [resp EXCEPT ![p] =
                   [NoResp EXCEPT !.status = 201, !.pending = pendingTransactions]]
    /\ pc' = [pc EXCEPT ![p] = "idle"]
    /\ body' = [body EXCEPT ![p] = NoBody]
    /\ UNCHANGED <<blockchain, pendingTransactions, mutex, txs, ret,
                   accepted, started, call>>

\* -------------------------------------------------------------- handleMine
\* Lines 184-197: OPTIONS returns at once; the body's difficulty and
\* timeout_ms are decoded over the defaults, a decode error is ignored.
MineBegin(p) ==
    /\ Begin(p)
    /\ \E method \in Methods, difficulty \in Difficulties, timeout \in Timeouts :
          IF method = "OPTIONS"
          THEN /\ resp' = [resp EXCEPT ![p] = [NoResp EXCEPT !.status = 200]]
               /\ UNCHANGED <<pc, body>>
          ELSE /\ resp' = [resp EXCEPT ![p] = NoResp]
               /\ body' = [body EXCEPT ![p] =
                             [NoBody EXCEPT !.Difficulty = difficulty,
                                            !.TimeoutMs = timeout]]
               /\ pc' = [pc EXCEPT ![p] = "mine_lock"]
    /\ UNCHANGED <<blockchain, pendingTransactions, mutex, accepted>>

\* Line 199.
MineLock(p) ==
    /\ pc[p] = "mine_lock"
    /\ mutex = Free
    /\ mutex' = p
    /\ pc' = [pc EXCEPT ![p] = "mine_snapshot"]
    /\ UNCHANGED <<blockchain, pendingTransactions, body, txs, ret, resp,
                   accepted, started, call>>

\* The test for nothing to mine left out.
poolEmptyNever(pending) == FALSE

\* The snapshot that forgets to clear the pool.
takeSnapshotKeep(pending) ==
    [txs |-> [i \in 1..Len(pending) |-> pending[i]], rest |-> pending]

\* Line 200: the test for nothing to mine.
poolEmpty(pending) == Len(pending) = 0

\* Lines 205-208: the copy of the pool, and the pool left behind.
takeSnapshot(pending) ==
    [txs |-> [i \in 1..Len(pending) |-> pending[i]], rest |-> << >>]

\* Lines 200-209: an empty pool is answered 400; otherwise the pool is
\* copied into txs and cleared. Either way the mutex is released.
MineSnapshot(p) ==
    /\ pc[p] = "mine_snapshot"
    /\ mutex' = Free
    /\ IF poolEmpty(pendingTransactions)
       THEN /\ resp' = [resp EXCEPT ![p] =
                           [NoResp EXCEPT !.status = 400, !.error = "NothingToMine"]]
            /\ pc' = [pc EXCEPT ![p] = "idle"]
            /\ body' = [body EXCEPT ![p] = NoBody]
            /\ UNCHANGED <<pendingTransactions, txs>>
       ELSE /\ txs' = [txs EXCEPT ![p] = takeSnapshot(pendingTransactions).txs]
            /\ pendingTransactions' = takeSnapshot(pendingTransactions).rest
            /\ pc' = [pc EXCEPT ![p] = "addblock_lock"]
            /\ UNCHANGED <<resp, body>>
    /\ UNCHANGED <<blockchain, ret, accepted, started, call>>

\* addBlock, line 131.
AddBlockLock(p) ==
    /\ pc[p] = "addblock_lock"
    /\ mutex = Free
    /\ mutex' = p
    /\ pc' = [pc EXCEPT ![p] = "addblock_mine"]
    /\ UNCHANGED <<blockchain, pendingTransactions, body, txs, ret, resp,
                   accepted, started, call>>

\* newBlock with the link to the predecessor taken from the wrong fields.
newBlockNoLink(prev, transactions, difficulty, ts) ==
    [ZeroBlock EXCEPT !.Index = prev.Index,
                      !.Timestamp = ts,
                      !.Transactions = transactions,
                      !.PrevHash = prev.PrevHash,
                      !.Difficulty = difficulty,
                      !.MerkleRoot = computeMerkleRoot(transactions)]

\* newBlock with the Merkle root computed before the transactions are set.
newBlockStaleRoot(prev, transactions, difficulty, ts) ==
    [ZeroBlock EXCEPT !.Index = prev.Index + 1,
                      !.Timestamp = ts,
                      !.Transactions = transactions,
                      !.PrevHash = prev.Hash,
                      !.Difficulty = difficulty,
                      !.MerkleRoot = computeMerkleRoot(ZeroBlock.Transactions)]

\* The block addBlock builds at time ts (lines 133-141).
newBlock(prev, transactions, difficulty, ts) ==
    [ZeroBlock EXCEPT !.Index = prev.Index + 1,
                      !.Timestamp = ts,
                      !.Transactions = transactions,
                      !.PrevHash = prev.Hash,
                      !.Difficulty = difficulty,
                      !.MerkleRoot = computeMerkleRoot(transactions)]

\* The commit writing over the last block instead of appending.
appendBlockOverwrite(chain, mined) == [chain EXCEPT ![Len(chain)] = mined]

\* Line 146.
appendBlock(chain, mined) == Append(chain, mined)

\* The deferred unlock left out: the mutex stays with the returning goroutine.
deferredUnlockOmitted(holder) == holder

\* Line 132, defer mutex.Unlock(): the holder of the mutex once addBlock
\* has returned or panicked.
deferredUnlock(holder) == Free

\* addBlock, lines 133-147, with the mutex held throughout. The deferred
\* Unlock runs on return and on panic; a panic unwinds handleMine too and
\* net/http drops the connection. A search that is still running, or that
\* can never end, keeps the mutex.
AddBlockMine(p) ==
    /\ pc[p] = "addblock_mine"
    /\ \E ts \in 0..MaxTime :
        \E out \in mineBlock(newBlock(getLastBlock(blockchain), txs[p],
                                      body[p].Difficulty, ts), 0) :
          CASE out.kind = "ok" ->
                 /\ blockchain' = appendBlock(blockchain, out.block)
                 /\ ret' = [ret EXCEPT ![p] = [block |-> out.block, err |-> FALSE]]
                 /\ mutex' = deferredUnlock(p)
                 /\ pc' = [pc EXCEPT ![p] = "mine_result"]
                 /\ UNCHANGED <<resp, body, txs>>
            [] out.kind = "timeout" ->
                 /\ ret' = [ret EXCEPT ![p] = [block |-> ZeroBlock, err |-> TRUE]]
                 /\ mutex' = deferredUnlock(p)
                 /\ pc' = [pc EXCEPT ![p] = "mine_result"]
                 /\ UNCHANGED <<blockchain, resp, body, txs>>
            [] out.kind = "panic" ->
                 /\ mutex' = deferredUnlock(p)
                 /\ resp' = [resp EXCEPT ![p] = [NoResp EXCEPT !.error = "Panic"]]
                 /\ pc' = [pc EXCEPT ![p] = "idle"]
                 /\ body' = [body EXCEPT ![p] = NoBody]
                 /\ txs' = [txs EXCEPT ![p] = << >>]
                 /\ UNCHANGED <<blockchain, ret>>
            [] out.kind \in {"running", "forever"} ->
                 /\ pc' = [pc EXCEPT ![p] = IF out.kind = "running"
                                            THEN "mining" ELSE "mining_forever"]
                 /\ UNCHANGED <<blockchain, ret, mutex, resp, body, txs>>
    /\ UNCHANGED <<pendingTransactions, accepted, started, call>>

\* handleMine, lines 211-220: on an error from addBlock answer 500 and put
\* txs back at the end of the pool under the mutex; otherwise answer with
\* the block.
MineResult(p) ==
    /\ pc[p] = "mine_result"
    /\ IF ret[p].err
       THEN /\ mutex = Free
            /\ pendingTransactions' = pendingTransactions \o txs[p]
            /\ resp' = [resp EXCEPT ![p] =
                           [NoResp EXCEPT !.status = 500, !.error = "MiningFailed"]]
       ELSE /\ resp' = [resp EXCEPT ![p] =
                           [NoResp EXCEPT !.status = 200, !.block = ret[p].block]]
            /\ UNCHANGED pendingTransactions
    /\ pc' = [pc EXCEPT ![p] = "idle"]
    /\ body' = [body EXCEPT ![p] = NoBody]
    /\ txs' = [txs EXCEPT ![p] = << >>]
    /\ ret' = [ret EXCEPT ![p] = NoRet]
    /\ UNCHANGED <<blockchain, mutex, accepted, started, call>>

\* ------------------------------------------------------------ read handlers
\* handleGetBlocks / handleGetPending, lines 224-243: lock, encode, and the
\* deferred unlock on return.
GetBegin(p) ==
    /\ Begin(p)
    /\ \E method \in Methods, what \in {"get_blocks", "get_pending"} :
          IF method = "OPTIONS"
          THEN /\ resp' = [resp EXCEPT ![p] = [NoResp EXCEPT !.status = 200]]
               /\ UNCHANGED pc
          ELSE /\ resp' = [resp EXCEPT ![p] = NoResp]
               /\ pc' = [pc EXCEPT ![p] = what]
    /\ UNCHANGED <<blockchain, pendingTransactions, mutex, body, accepted>>

GetLock(p) ==
    /\ pc[p] \in {"get_blocks", "get_pending"}
    /\ mutex = Free
    /\ mutex' = p
    /\ pc' = [pc EXCEPT ![p] = IF pc[p] = "get_blocks" THEN "encode_blocks"
                                                      ELSE "encode_pending"]
    /\ UNCHANGED <<blockchain, pendingTransactions, body, txs, ret, resp,
                   accepted, started, call>>

GetEncode(p) ==
    /\ pc[p] \in {"encode_blocks", "encode_pending"}
    /\ resp' = [resp EXCEPT ![p] =
                   IF pc[p] = "encode_blocks"
                   THEN [status |-> 200, error |-> "", pending |-> << >>,
                         block |-> ZeroBlock, blocks |-> blockchain]
                   ELSE [NoResp EXCEPT !.status = 200,
                                       !.pending = pendingTransactions]]
    /\ mutex' = Free
    /\ pc' = [pc EXCEPT ![p] = "idle"]
    /\ UNCHANGED <<blockchain, pendingTransactions, body, txs, ret,
                   accepted, started, call>>

Next ==
    \E p \in Procs :
        \/ AddTxBegin(p)
        \/ AddTxDecode(p)
        \/ AddTxLock(p)
        \/ AddTxAppend(p)
        \/ AddTxUnlock(p)
        \/ AddTxEncode(p)
        \/ MineBegin(p)
        \/ MineLock(p)
        \/ MineSnapshot(p)
        \/ AddBlockLock(p)
        \/ AddBlockMine(p)
        \/ MineResult(p)
        \/ GetBegin(p)
        \/ GetLock(p)
        \/ GetEncode(p)

Spec == Init /\ [][Next]_vars

\* ----------------------------------------------------------------- restart
\* The blocks createGenesisBlock may return, over all start times.
GenesisBlocks == UNION {createGenesisBlock(ts) : ts \in 0..MaxTime}

\* The process is stopped and started again: every goroutine is gone, and
\* main (lines 284-287) builds the chain anew from createGenesisBlock with
\* the pool empty; nothing is read from or written to a file anywhere.
\* Responses already sent stay with their clients.
Restart ==
    /\ \E gen \in GenesisBlocks : blockchain' = <<gen>>
    /\ pendingTransactions' = << >>
    /\ mutex' = Free
    /\ pc' = [p \in Procs |-> "idle"]
    /\ body' = [p \in Procs |-> NoBody]
    /\ txs' = [p \in Procs |-> << >>]
    /\ ret' = [p \in Procs |-> NoRet]
    /\ UNCHANGED <<resp, accepted, started, call>>

RestartSpec == Init /\ [][Next \/ Restart]_vars

\* ------------------------------------------------- after a first submission
\* The server after its first request, POST /tx {"data":"a"} served by
\* goroutine 1, has returned: "a" is pending and the response holds the pool.
\* MaxRequests further requests follow.
OrderInit ==
    /\ \E gen \in GenesisBlocks : blockchain = <<gen>>
    /\ pendingTransactions = << <<97>> >>
    /\ mutex = Free
    /\ pc = [p \in Procs |-> "idle"]
    /\ body = [p \in Procs |-> NoBody]
    /\ txs = [p \in Procs |-> << >>]
    /\ ret = [p \in Procs |-> NoRet]
    /\ resp = [p \in Procs |->
                 IF p = 1 THEN [NoResp EXCEPT !.status = 201,
                                              !.pending = << <<97>> >>]
                          ELSE NoResp]
    /\ accepted = << <<97>> >>
    /\ started = 0
    /\ call = NoCall

OrderSpec == OrderInit /\ [][Next]_vars

\* ============================================================== properties
\* The number of leading '0' characters of a hex string.
RECURSIVE LeadingZeros(_)
LeadingZeros(h) ==
    IF h # << >> /\ Head(h) = 48 THEN 1 + LeadingZeros(Tail(h)) ELSE 0

ProofOfWork ==
    \A i \in 1..Len(blockchain) :
        /\ blockchain[i].Hash = computeHash(blockchain[i])
        /\ LeadingZeros(blockchain[i].Hash) >= blockchain[i].Difficulty

\* A block mined at difficulty 4 after failed candidates is committed, while
\* requests carrying a negative and an unsatisfiable difficulty were made.
ProofOfWorkWitness ==
    /\ \E i \in 2..Len(blockchain) :
          blockchain[i].Difficulty = 4 /\ blockchain[i].Nonce > 0
    /\ blockchain[1].Difficulty = defaultDifficulty

\* C3: every step leaves the block sequence unchanged or appends exactly
\* one block; committed blocks are never modified, reordered or removed.
AppendOnly ==
    [][\/ blockchain' = blockchain
       \/ /\ Len(blockchain') = Len(blockchain) + 1
          /\ SubSeq(blockchain', 1, Len(blockchain)) = blockchain]_vars

\* A block has been appended behind the genesis block and requests went on.
AppendOnlyWitness ==
    /\ Len(blockchain) = 2
    /\ \E p \in Procs : pc[p] \notin {"idle", "mine_result"}

\* C5: every committed block's merkle_root is the Merkle root of that
\* block's own transactions.
MerkleRootMatches ==
    \A i \in 1..Len(blockchain) :
        blockchain[i].MerkleRoot = computeMerkleRoot(blockchain[i].Transactions)

\* A block of two transactions is committed.
MerkleRootMatchesWitness ==
    \E i \in 2..Len(blockchain) : Len(blockchain[i].Transactions) = 2

\* C6: every committed block after the genesis block has at least one
\* transaction.
NonGenesisNonEmpty ==
    \A i \in 1..Len(blockchain) :
        blockchain[i].Index > 0 => blockchain[i].Transactions # << >>

\* Two mine requests raced on one pool: one took the snapshot and committed,
\* the other found the pool empty.
NonGenesisNonEmptyWitness ==
    /\ Len(blockchain) = 2
    /\ \E p, q \in Procs :
          /\ p # q
          /\ resp[p].error = "NothingToMine"
          /\ pc[q] = "mine_result"

\* The number of occurrences of t in the sequence seq.
RECURSIVE Count(_, _)
Count(t, seq) ==
    IF seq = << >> THEN 0
    ELSE (IF Head(seq) = t THEN 1 ELSE 0) + Count(t, Tail(seq))

\* The transactions of the committed blocks after the genesis block, in
\* chain order.
RECURSIVE CommittedFrom(_)
CommittedFrom(i) ==
    IF i > Len(blockchain) THEN << >>
    ELSE blockchain[i].Transactions \o CommittedFrom(i + 1)

CommittedTxs == CommittedFrom(2)

\* C4: once every started request has finished, the multiset of accepted
\* transactions equals the multiset of the pending pool plus the
\* transactions of all committed non-genesis blocks.
NoTxLostOrDuplicated ==
    (\A p \in Procs : pc[p] = "idle") =>
        \A t \in TxData :
            Count(t, accepted) =
                Count(t, pendingTransactions) + Count(t, CommittedTxs)

\* C7: a mine request that passes the empty-pool test takes, in that one
\* step, exactly the pool contents in order and leaves the pool empty; its
\* snapshot is untouched until its commit; the block it commits is appended
\* carrying exactly the snapshot, and the commit leaves the pool, with what
\* was submitted since the snapshot, as it is.
SnapshotAtomic ==
    [][\A p \in Procs :
         /\ (pc[p] = "mine_snapshot" /\ pc'[p] = "addblock_lock") =>
               /\ txs'[p] = pendingTransactions
               /\ txs'[p] # << >>
               /\ pendingTransactions' = << >>
         /\ (pc[p] \in {"addblock_lock", "addblock_mine"}
                /\ pc'[p] \in {"addblock_lock", "addblock_mine", "mining",
                                "mine_result"}) =>
               txs'[p] = txs[p]
         /\ (pc[p] = "addblock_mine" /\ pc'[p] = "mine_result") =>
               /\ blockchain' = Append(blockchain, ret'[p].block)
               /\ ret'[p].block.Transactions = txs[p]
               /\ pendingTransactions' = pendingTransactions]_vars

\* A block was committed from a snapshot while a transaction submitted after
\* the snapshot is still pending and in no block.
SnapshotAtomicWitness ==
    \E p \in Procs :
        /\ pc[p] = "mine_result"
        /\ blockchain[Len(blockchain)].Transactions = txs[p]
        /\ pendingTransactions # << >>
        /\ Len(accepted) = Len(txs[p]) + Len(pendingTransactions)

\* (A step of goroutine p is a step that changes pc[p].)
\* C8: a mine request that finds the pool empty fails with NothingToMine,
\* changes neither the chain nor the pool, and leaves the mutex released.
NothingToMineNoChange ==
    [][\A p \in Procs :
         (pc[p] = "mine_snapshot" /\ pc'[p] # pc[p]
            /\ pendingTransactions = << >>) =>
             /\ pc'[p] = "idle"
             /\ resp'[p].status = 400
             /\ resp'[p].error = "NothingToMine"
             /\ blockchain' = blockchain
             /\ pendingTransactions' = pendingTransactions
             /\ mutex' = Free]_vars

\* A mine request was answered NothingToMine.
NothingToMineWitness ==
    \E p \in Procs :
        /\ resp[p].error = "NothingToMine"
        /\ pc[p] = "idle"
        /\ pendingTransactions = << >>
        /\ mutex = Free

\* A string that is empty or consists of white space only.
IsBlank(s) == \A i \in 1..Len(s) : s[i] \in {9, 10, 11, 12, 13, 32}

\* C9: submit with an empty or whitespace-only tx fails with InvalidInput
\* and leaves pool and chain unchanged; submit with any other tx appends
\* exactly that tx, untrimmed and once, at the end of the pool, and changes
\* nothing else.
SubmitValidates ==
    [][\A p \in Procs :
         /\ (pc[p] = "tx_decode" /\ pc'[p] # pc[p]
                /\ IsBlank(body[p].Data)) =>
               /\ pc'[p] = "idle"
               /\ resp'[p].status = 400
               /\ resp'[p].error = "InvalidInput"
               /\ pendingTransactions' = pendingTransactions
               /\ blockchain' = blockchain
         /\ (pc[p] = "tx_decode" /\ pc'[p] # pc[p]
                /\ ~IsBlank(body[p].Data) /\ ~body[p].DecodeErr) =>
               /\ pc'[p] = "tx_lock"
               /\ body'[p] = body[p]
               /\ pendingTransactions' = pendingTransactions
               /\ blockchain' = blockchain
         /\ (pc[p] = "tx_append" /\ pc'[p] # pc[p]) =>
               /\ pc'[p] = "tx_unlock"
               /\ pendingTransactions' =
                      Append(pendingTransactions, body[p].Data)
               /\ blockchain' = blockchain
         /\ (pc[p] \in {"tx_lock", "tx_unlock", "tx_encode"}
                /\ pc'[p] # pc[p]) =>
               /\ pendingTransactions' = pendingTransactions
               /\ blockchain' = blockchain]_vars

\* A blank submit was answered InvalidInput and a submit of " a" put
\* exactly " a" in the pool.
SubmitValidatesWitness ==
    /\ \E p \in Procs : resp[p].error = "InvalidInput"
    /\ pendingTransactions = << <<32, 97>> >>
    /\ accepted = << <<32, 97>> >>

\* C10: the pool in the response of a successful submit is the pool as it
\* stood right after this request's own append: its last element is tx.
SubmitReturnsOwnPool ==
    [][\A p \in Procs :
         (pc[p] = "tx_encode" /\ pc'[p] = "idle") =>
             /\ resp'[p].status = 201
             /\ resp'[p].pending # << >>
             /\ resp'[p].pending[Len(resp'[p].pending)] = body[p].Data]_vars

\* C11: a mine request that carries a positive timeout always returns (with
\* the committed block, or with MiningTimeout once the search exceeds the
\* timeout): it is never inside a nonce search that has no exit.
MineWithTimeoutReturns ==
    \A p \in Procs :
        body[p].TimeoutMs > 0 => pc[p] # "mining_forever"

\* C12: when the mining step of a mine request fails (the request ends
\* without a committed block after it took a snapshot), the chain is
\* unchanged and the snapshot is back in the pool, in its order, as one run
\* of Len(txs) more elements.
MiningFailureRestores ==
    [][\A p \in Procs :
         (pc[p] \in {"addblock_mine", "mine_result"} /\ pc'[p] = "idle"
            /\ resp'[p].status # 200) =>
             /\ blockchain' = blockchain
             /\ Len(pendingTransactions') =
                    Len(pendingTransactions) + Len(txs[p])
             /\ \E k \in 0..Len(pendingTransactions) :
                    SubSeq(pendingTransactions', k + 1, k + Len(txs[p])) = txs[p]]_vars

\* ============================================ computeMerkleRoot, called alone
\* All sequences over S of length 0..n.
RECURSIVE SeqsUpTo(_, _)
SeqsUpTo(S, n) ==
    IF n = 0 THEN {<< >>}
    ELSE LET shorter == SeqsUpTo(S, n - 1)
         IN  shorter \cup {Append(t, x) : t \in {u \in shorter : Len(u) = n - 1},
                                          x \in S}

MerkleInit ==
    /\ ServerInit
    /\ \E t \in SeqsUpTo(MerkleAlphabet, MaxTxs) :
          call = [fn |-> "computeMerkleRoot", txs |-> t, done |-> FALSE,
                  root |-> << >>]

\* computeMerkleRoot(txs) runs and returns.
MerkleCall ==
    /\ call.fn = "computeMerkleRoot"
    /\ ~call.done
    /\ call' = [call EXCEPT !.done = TRUE, !.root = computeMerkleRoot(call.txs)]
    /\ UNCHANGED server

MerkleSpec == MerkleInit /\ [][MerkleCall]_vars

\* The reference reduction, by recursion on the layer: the first two
\* elements give Hasher(left || right), a single remaining element gives
\* Hasher(last || last).
RECURSIVE RefPairs(_)
RefPairs(layer) ==
    IF layer = << >> THEN << >>
    ELSE IF Len(layer) = 1 THEN <<sha256hex(layer[1] \o layer[1])>>
    ELSE <<sha256hex(layer[1] \o layer[2])>> \o RefPairs(Tail(Tail(layer)))

RECURSIVE RefReduce(_)
RefReduce(layer) ==
    IF Len(layer) = 1 THEN layer[1] ELSE RefReduce(RefPairs(layer))

RECURSIVE RefLeaves(_)
RefLeaves(t) ==
    IF t = << >> THEN << >> ELSE <<sha256hex(Head(t))>> \o RefLeaves(Tail(t))

RefMerkle(t) ==
    IF t = << >> THEN sha256hex(<< >>) ELSE RefReduce(RefLeaves(t))

\* C13: the Merkle root of every transaction list is the reference
\* reduction; the empty list gives Hasher(""), [a] gives Hasher(a), [a,b]
\* gives H(H(a)+H(b)) and [a,b,c] gives H(H(H(a)+H(b)) + H(H(c)+H(c))).
MerkleMatchesReference ==
    (call.fn = "computeMerkleRoot" /\ call.done) =>
        LET t == call.txs
            H(x) == sha256hex(x)
        IN  /\ call.root = RefMerkle(t)
            /\ Len(t) = 0 => call.root = H(<< >>)
            /\ Len(t) = 1 => call.root = H(t[1])
            /\ Len(t) = 2 => call.root = H(H(t[1]) \o H(t[2]))
            /\ Len(t) = 3 =>
                   call.root = H(H(H(t[1]) \o H(t[2])) \o H(H(t[3]) \o H(t[3])))

\* The root of ["a","b","c"] was computed: three leaves, the odd one paired
\* with itself.
MerkleMatchesReferenceWitness ==
    /\ call.fn = "computeMerkleRoot"
    /\ call.done
    /\ call.txs = << <<97>>, <<98>>, <<99>> >>
    /\ call.root = sha256hex(sha256hex(sha256hex(<<97>>) \o sha256hex(<<98>>))
                              \o sha256hex(sha256hex(<<99>>) \o sha256hex(<<99>>)))

Reverse(t) == [i \in 1..Len(t) |-> t[Len(t) + 1 - i]]

\* C14: for every non-empty transaction list, reversing the list changes
\* the Merkle root unless the list has length 1.
MerkleReverseChangesRoot ==
    (call.fn = "computeMerkleRoot" /\ call.done /\ Len(call.txs) > 1) =>
        computeMerkleRoot(Reverse(call.txs)) # call.root

\* C14, amended: reversing a non-empty list changes the Merkle root unless
\* the reversed list is the same list (as is every list of length 1).
MerkleOrderSensitive ==
    (call.fn = "computeMerkleRoot" /\ call.done /\ Len(call.txs) >= 1) =>
        /\ Reverse(call.txs) # call.txs =>
               computeMerkleRoot(Reverse(call.txs)) # call.root
        /\ Reverse(call.txs) = call.txs =>
               computeMerkleRoot(Reverse(call.txs)) = call.root

\* The root of ["a","a","b","a"] was computed and differs from the root of
\* ["a","b","a","a"].
MerkleOrderSensitiveWitness ==
    /\ call.fn = "computeMerkleRoot"
    /\ call.done
    /\ call.txs = << <<97>>, <<97>>, <<98>>, <<97>> >>
    /\ call.root # computeMerkleRoot(<< <<97>>, <<98>>, <<97>>, <<97>> >>)

\* C15: the chain survives a restart: once a block has been committed, the
\* block sequence loaded at the next startup is field for field the
\* sequence that stood committed (and persisted) before; a fresh genesis
\* block is created only when nothing was stored.
ReloadedChainIdentical ==
    [][(Restart /\ Len(blockchain) > 1) => blockchain' = blockchain]_vars

\* ==================================================== mineBlock, called alone
\* Blocks as addBlock builds them, over every difficulty.
MinerBlocks ==
    {newBlock(prev, t, d, ts) :
        prev \in GenesisBlocks,
        t \in {<< <<97>> >>, << <<97>>, <<98>> >>},
        d \in Difficulties,
        ts \in 0..MaxTime}

\* mineBlock(b, stopAfterMs) is entered: arg is the block passed in, b the
\* function's own copy, nonce its loop variable; tried lists the nonces whose
\* hash was computed and tested, reported is the nonce in the error message.
MinerInit ==
    /\ ServerInit
    /\ \E b \in MinerBlocks, stop \in Timeouts :
          call = [fn |-> "mineBlock", arg |-> b, b |-> b, stopAfterMs |-> stop,
                  at |-> "start", nonce |-> 0, tried |-> << >>, reported |-> 0]

\* Lines 86-88: strings.Repeat panics on a negative difficulty; otherwise
\* the loop starts at nonce 0.
MineStart ==
    /\ call.fn = "mineBlock"
    /\ call.at = "start"
    /\ call' = [call EXCEPT !.at = IF call.b.Difficulty < 0 THEN "panic"
                                                             ELSE "loop"]
    /\ UNCHANGED server

\* The loop body advancing the nonce by two.
MineTrySkipping ==
    /\ call.fn = "mineBlock"
    /\ call.at = "loop"
    /\ call.nonce <= MaxNonce
    /\ LET b1 == [call.b EXCEPT !.Nonce = call.nonce]
           hash == computeHash(b1)
       IN  IF HasPrefix(hash, Repeat0(call.b.Difficulty))
           THEN call' = [call EXCEPT !.b = [b1 EXCEPT !.Hash = hash],
                                     !.tried = Append(@, call.nonce),
                                     !.at = "ok"]
           ELSE \E expired \in IF call.stopAfterMs > 0 THEN BOOLEAN ELSE {FALSE} :
                  call' = [call EXCEPT !.b = b1,
                                       !.tried = Append(@, call.nonce),
                                       !.nonce = @ + 2,
                                       !.at = IF expired THEN "timeout" ELSE "loop",
                                       !.reported = IF expired THEN call.nonce + 2
                                                               ELSE @]
    /\ UNCHANGED server

\* Lines 90-100, one pass of the loop: the candidate nonce is stored in b
\* and hashed; a hash with the prefix ends the search with b.Hash set;
\* otherwise the nonce is incremented and, when stopAfterMs > 0 and the
\* clock has passed it, the search ends with the error naming that nonce.
MineTry ==
    /\ call.fn = "mineBlock"
    /\ call.at = "loop"
    /\ call.nonce <= MaxNonce
    /\ LET b1 == [call.b EXCEPT !.Nonce = call.nonce]
           hash == computeHash(b1)
       IN  IF HasPrefix(hash, Repeat0(call.b.Difficulty))
           THEN call' = [call EXCEPT !.b = [b1 EXCEPT !.Hash = hash],
                                     !.tried = Append(@, call.nonce),
                                     !.at = "ok"]
           ELSE \E expired \in IF call.stopAfterMs > 0 THEN BOOLEAN ELSE {FALSE} :
                  call' = [call EXCEPT !.b = b1,
                                       !.tried = Append(@, call.nonce),
                                       !.nonce = @ + 1,
                                       !.at = IF expired THEN "timeout" ELSE "loop",
                                       !.reported = IF expired THEN call.nonce + 1
                                                               ELSE @]
    /\ UNCHANGED server

MinerSpec == MinerInit /\ [][MineStart \/ MineTry]_vars

\* C16: when the search ends with the timeout error, the nonce the error
\* reports is the last nonce attempted: the last candidate whose hash was
\* computed and tested.
TimeoutReportsLastAttempt ==
    (call.fn = "mineBlock" /\ call.at = "timeout") =>
        /\ call.tried # << >>
        /\ call.reported = call.tried[Len(call.tried)]

\* C17: a successful search returns the least nonce n >= 0 whose block hash
\* starts with `difficulty` characters '0'; the candidates tried are
\* 0, 1, ..., n in this order; the returned block is the block passed in
\* with only Nonce and Hash changed.
MinerReturnsLeastNonce ==
    /\ call.fn = "mineBlock" =>
           call.tried = [i \in 1..Len(call.tried) |-> i - 1]
    /\ (call.fn = "mineBlock" /\ call.at = "ok") =>
           LET n == call.b.Nonce
               Solves(m) ==
                   LeadingZeros(computeHash([call.arg EXCEPT !.Nonce = m]))
                       >= call.arg.Difficulty
           IN  /\ n >= 0
               /\ Solves(n)
               /\ \A m \in 0..(n - 1) : ~Solves(m)
               /\ call.tried = [i \in 1..(n + 1) |-> i - 1]
               /\ call.b = [call.arg EXCEPT
                               !.Nonce = n,
                               !.Hash = computeHash([call.arg EXCEPT !.Nonce = n])]

\* A search at difficulty 4 succeeded after failed candidates.
MinerReturnsLeastNonceWitness ==
    /\ call.fn = "mineBlock"
    /\ call.at = "ok"
    /\ call.arg.Difficulty = 4
    /\ call.b.Nonce >= 2

\* The steps of a handler that read or write the chain or the pool: the
\* append of line 174, the snapshot of lines 200-208, addBlock's lines
\* 133-146, and the encoding of the pool or the chain into a response
\* (lines 179, 231, 242).
SharedAccess ==
    {"tx_append", "mine_snapshot", "addblock_mine", "tx_encode",
     "encode_blocks", "encode_pending"}

\* C18: every read and every write of the chain or of the pool by a
\* handler is made while that handler holds the mutex.
LockGuardsAccess ==
    [][/\ \A p \in Procs :
            (pc[p] \in SharedAccess /\ pc'[p] # pc[p]) => mutex = p
       /\ (blockchain' # blockchain \/ pendingTransactions' # pendingTransactions)
              => (mutex # Free /\ pc'[mutex] # pc[mutex])]_vars

\* The place of t in the sequence seq.
Pos(t, seq) == CHOOSE i \in 1..Len(seq) : seq[i] = t

\* C19: the chain preserves submission order: of two different transactions
\* that are both committed, the one accepted into the pool first stands in
\* an earlier block, or earlier in the same block.
CommitPreservesSubmissionOrder ==
    (\A i, j \in 1..Len(accepted) : i # j => accepted[i] # accepted[j]) =>
        \A i, j \in 1..Len(CommittedTxs) :
            i < j => Pos(CommittedTxs[i], accepted) < Pos(CommittedTxs[j], accepted)

\* The steps of the handler run by goroutine p, once its request is read,
\* but for the call of mineBlock inside addBlock.
Handler(p) ==
    \/ AddTxDecode(p) \/ AddTxLock(p) \/ AddTxAppend(p) \/ AddTxUnlock(p)
    \/ AddTxEncode(p)
    \/ MineLock(p) \/ MineSnapshot(p) \/ AddBlockLock(p) \/ MineResult(p)
    \/ GetLock(p) \/ GetEncode(p)

\* Goroutine p can take its next step in this state; inside addBlock that
\* step is mineBlock coming to some outcome.
CanStep(p) ==
    IF pc[p] = "addblock_mine"
    THEN \E ts \in 0..MaxTime :
            mineBlock(newBlock(getLastBlock(blockchain), txs[p],
                               body[p].Difficulty, ts), 0) # {}
    ELSE ENABLED Handler(p)

\* A nonce search that has not returned.
Searching == {"mining", "mining_forever"}

\* Where a handler stands between a Lock and the matching Unlock.
Locked ==
    {"tx_append", "tx_unlock", "mine_snapshot", "addblock_mine",
     "encode_blocks", "encode_pending"} \cup Searching

\* How far a handler has come.
Rank(at) ==
    CASE at \in {"tx_decode", "mine_lock", "get_blocks", "get_pending"} -> 1
      [] at \in {"tx_lock", "mine_snapshot", "encode_blocks", "encode_pending"} -> 2
      [] at \in {"tx_append", "addblock_lock"} -> 3
      [] at \in {"tx_unlock", "addblock_mine"} -> 4
      [] at \in {"tx_encode"} \cup Searching -> 5
      [] at = "mine_result" -> 6
      [] OTHER -> 0

\* The mutex is held only by a handler between its Lock and its Unlock:
\* never by a request that has returned, never past the critical section.
LockHeldInsideOnly ==
    /\ mutex # Free => pc[mutex] \in Locked
    /\ \A p \in Procs : pc[p] \in Locked => mutex = p

\* Every request that has not returned and is not inside a nonce search can
\* take its next step now, or waits for the mutex while its holder can take
\* its next step or is inside a nonce search.
NoRequestStuck ==
    \A p \in Procs :
        pc[p] \notin {"idle"} \cup Searching =>
            \/ CanStep(p)
            \/ /\ mutex \notin {Free, p}
               /\ (CanStep(mutex) \/ pc[mutex] \in Searching)

====
